---------------------------- MODULE Spec2Model ----------------------------
(***************************************************************************)
(* Sortify: rule-based file classification (engine.py), the collision-safe *)
(* move primitive, the batch modes of manual/manual.py and the watch       *)
(* handler of auto/auto.py.                                                *)
(*                                                                         *)
(* A string is a sequence of one-character strings, so that the string     *)
(* operations of the code (suffix, stem, lower, upper, lstrip, startswith, *)
(* formatting of the collision counter) are computed and not assumed.      *)
(* A path is the sequence of its components, from the filesystem root.     *)
(***************************************************************************)
EXTENDS Integers, Sequences, FiniteSets, TLC

VARIABLES
    fs,      \* the filesystem: a function from the existing paths to their nodes
    cfg,     \* the loaded configuration (fixed after Init)
    pc,      \* the control point of the running operation
    todo,    \* the items the running pass still has to process
    moved,   \* the pass's counter of routed / re-routed / reverted items
    run,     \* the local variables of the running operations (a pass, a mover, a handler)
    log      \* the most recent completed call: its arguments, the filesystem before, its result

vars == <<fs, cfg, pc, todo, moved, run, log>>

-----------------------------------------------------------------------------
(* Bounds of the model. *)

MaxCalls == 3

MaxPasses == 2

-----------------------------------------------------------------------------
(* Strings. *)

LowerChars == <<"a","b","c","d","e","f","g","h","i","j","k","l","m",
                "n","o","p","q","r","s","t","u","v","w","x","y","z">>
UpperChars == <<"A","B","C","D","E","F","G","H","I","J","K","L","M",
                "N","O","P","Q","R","S","T","U","V","W","X","Y","Z">>
DigitChars == <<"0","1","2","3","4","5","6","7","8","9">>

LowerChar(c) ==
    IF \E i \in 1..26 : UpperChars[i] = c
    THEN LowerChars[CHOOSE i \in 1..26 : UpperChars[i] = c]
    ELSE c

UpperChar(c) ==
    IF \E i \in 1..26 : LowerChars[i] = c
    THEN UpperChars[CHOOSE i \in 1..26 : LowerChars[i] = c]
    ELSE c

\* str.lower()
Lower(s) == [i \in 1..Len(s) |-> LowerChar(s[i])]

\* str.upper()
Upper(s) == [i \in 1..Len(s) |-> UpperChar(s[i])]

\* str(n) for n >= 0
RECURSIVE Str(_)
Str(n) == IF n < 10 THEN <<DigitChars[n + 1]>>
          ELSE Str(n \div 10) \o <<DigitChars[(n % 10) + 1]>>

\* s.lstrip(".")
RECURSIVE LStripDot(_)
LStripDot(s) == IF s # <<>> /\ s[1] = "." THEN LStripDot(Tail(s)) ELSE s

\* s.startswith(c) for a one-character c
StartsWith(s, c) == s # <<>> /\ s[1] = c

\* name.rfind("."), 1-based, 0 when there is none
RFindDot(name) ==
    IF \E i \in 1..Len(name) : name[i] = "."
    THEN CHOOSE i \in 1..Len(name) :
            name[i] = "." /\ \A j \in (i+1)..Len(name) : name[j] # "."
    ELSE 0

\* PurePath.suffix: the last dot and what follows, unless the dot is the
\* first or the last character of the name
Suffix(name) ==
    LET j == RFindDot(name)
    IN  IF 1 < j /\ j < Len(name) THEN SubSeq(name, j, Len(name)) ELSE <<>>

\* PurePath.stem
Stem(name) ==
    LET j == RFindDot(name)
    IN  IF 1 < j /\ j < Len(name) THEN SubSeq(name, 1, j - 1) ELSE name

-----------------------------------------------------------------------------
(* Paths and the filesystem. *)

Root == <<>>

Parent(p) == SubSeq(p, 1, Len(p) - 1)

Name(p) == p[Len(p)]

\* p is q or an ancestor of q
IsPrefix(p, q) == Len(p) <= Len(q) /\ SubSeq(q, 1, Len(p)) = p

Exists(f, p) == p = Root \/ p \in DOMAIN f

IsDir(f, p) == p = Root \/ (p \in DOMAIN f /\ f[p].kind = "dir")

IsFile(f, p) == p \in DOMAIN f /\ f[p].kind = "file"

\* the entries of directory d
Children(f, d) == {p \in DOMAIN f : Len(p) = Len(d) + 1 /\ IsPrefix(d, p)}

NewDir == [kind |-> "dir", id |-> 0, size |-> 0, year |-> 0]

\* Path.mkdir(parents=True, exist_ok=True): raises when a component of p is
\* an existing file, and then creates nothing
MkdirP(f, p) ==
    LET prefixes == {SubSeq(p, 1, k) : k \in 1..Len(p)}
    IN  IF \E q \in prefixes : IsFile(f, q)
        THEN [ok |-> FALSE, fs |-> f]
        ELSE [ok |-> TRUE,
              fs |-> [q \in DOMAIN f \cup prefixes |->
                        IF q \in DOMAIN f THEN f[q] ELSE NewDir]]

\* os.rename(src, dst) of an existing src onto a dst that does not exist or
\* is a file that a file replaces: src and everything below it is re-keyed
Rename(f, src, dst) ==
    LET below  == {p \in DOMAIN f : IsPrefix(src, p)}
        target == {dst \o SubSeq(p, Len(src) + 1, Len(p)) : p \in below}
        dom    == ((DOMAIN f) \ below) \cup target
    IN  [q \in dom |->
            IF IsPrefix(dst, q)
            THEN f[src \o SubSeq(q, Len(dst) + 1, Len(q))]
            ELSE f[q]]

\* shutil.move(src, dst): [ok, fs, dest]
ShutilMove(f, src, dst) ==
    LET real == IF IsDir(f, dst) THEN dst \o <<Name(src)>> ELSE dst
        fail == [ok |-> FALSE, fs |-> f, dest |-> real]
    IN  IF ~Exists(f, src) \/ src = Root THEN fail
        ELSE IF IsDir(f, dst) /\ Exists(f, real) THEN fail
        ELSE IF ~IsDir(f, Parent(real)) THEN fail
        ELSE IF IsDir(f, src) /\ IsPrefix(src, real) THEN fail
        ELSE IF IsDir(f, src) /\ IsFile(f, real) THEN fail
        ELSE [ok |-> TRUE, fs |-> Rename(f, src, real), dest |-> real]

\* the order of the characters (their code points, as far as names use them)
CharOrder == <<".", "0","1","2","3","4","5","6","7","8","9",
               "A","B","C","D","E","F","G","H","I","J","K","L","M",
               "N","O","P","Q","R","S","T","U","V","W","X","Y","Z", "_",
               "a","b","c","d","e","f","g","h","i","j","k","l","m",
               "n","o","p","q","r","s","t","u","v","w","x","y","z", "~">>

Ord(c) == CHOOSE i \in 1..Len(CharOrder) : CharOrder[i] = c

\* a < b for strings
RECURSIVE StrLess(_, _)
StrLess(a, b) ==
    IF b = <<>> THEN FALSE
    ELSE IF a = <<>> THEN TRUE
    ELSE IF a[1] # b[1] THEN Ord(a[1]) < Ord(b[1])
    ELSE StrLess(Tail(a), Tail(b))

\* sorted(directory.iterdir()) for the entries ps of one directory
RECURSIVE Sorted(_)
Sorted(ps) ==
    IF ps = {} THEN <<>>
    ELSE LET first == CHOOSE p \in ps :
                        \A q \in ps \ {p} : StrLess(Name(p), Name(q))
         IN  <<first>> \o Sorted(ps \ {first})

\* the files below directory d (os.walk's filenames, every level)
FilesBelow(f, d) == {p \in DOMAIN f : IsPrefix(d, p) /\ p # d /\ f[p].kind = "file"}

\* a prune by rmtree in place of rmdir: every directory below d goes, with
\* what it holds
RemoveDirsBelow(f, d) ==
    LET gone == {p \in DOMAIN f :
                    \E q \in DOMAIN f : /\ IsPrefix(d, q) /\ q # d /\ f[q].kind = "dir"
                                        /\ IsPrefix(q, p)}
    IN  [q \in (DOMAIN f) \ gone |-> f[q]]

\* _remove_empty_dirs(d): bottom-up, every directory below d that holds no
\* entry when it is looked at is removed; d itself stays
RemoveEmptyDirs(f, d) ==
    LET gone == {p \in DOMAIN f :
                    /\ IsPrefix(d, p) /\ p # d
                    /\ f[p].kind = "dir"
                    /\ FilesBelow(f, p) = {}}
    IN  [q \in (DOMAIN f) \ gone |-> f[q]]

-----------------------------------------------------------------------------
(* engine.safe_move *)

\* f"{stem}_{counter}{suffix}"
NewName(stem, counter, suffix) == stem \o <<"_">> \o Str(counter) \o suffix

\* the while loop of safe_move, entered with counter
RECURSIVE FreeDest(_, _, _, _, _)
FreeDest(f, dest_dir, stem, suffix, counter) ==
    LET dest == dest_dir \o <<NewName(stem, counter, suffix)>>
    IN  IF ~Exists(f, dest) THEN dest
        ELSE FreeDest(f, dest_dir, stem, suffix, counter + 1)

\* safe_move without its existence check
PickDestUnchecked(f, src, dest_dir) == dest_dir \o <<Name(src)>>

\* the destination safe_move picks in filesystem f
PickDest(f, src, dest_dir) ==
    LET dest == dest_dir \o <<Name(src)>>
    IN  IF Exists(f, dest)
        THEN FreeDest(f, dest_dir, Stem(Name(src)), Suffix(Name(src)), 1)
        ELSE dest

\* safe_move(src, dest_dir) run without interruption: [ok, fs, dest]
SafeMove(f, src, dest_dir) ==
    LET made == MkdirP(f, dest_dir)
    IN  IF ~made.ok THEN [ok |-> FALSE, fs |-> f, dest |-> dest_dir]
        ELSE ShutilMove(made.fs, src, PickDest(made.fs, src, dest_dir))


-----------------------------------------------------------------------------
(* The configuration.  The routing is the ordered mapping of the category   *)
(* names to their rules: a sequence of [name, rule], no name twice.  A rule *)
(* is the dict of the config file: a function of the keys it holds.  A      *)
(* configured path is [abs, parts]: absolute or relative, and its parts.    *)

OTHERS == <<"O", "t", "h", "e", "r", "s">>
FOLDERS == <<"F", "o", "l", "d", "e", "r", "s">>

\* dict.get(key, default)
Get(d, key, default) == IF key \in DOMAIN d THEN d[key] ELSE default

\* key in routing
HasCategory(routing, category) ==
    \E i \in 1..Len(routing) : routing[i].name = category

\* routing[category]
RuleOf(routing, category) ==
    routing[CHOOSE i \in 1..Len(routing) : routing[i].name = category].rule

\* None, and a value that is not None
None == <<>>
Some(v) == <<v>>

-----------------------------------------------------------------------------
(* engine.get_file_metadata, engine._rule_matches, engine.match_category *)

\* the metadata of the file at path p of filesystem f.  The year of a node
\* is the year stat reports as st_birthtime; where the platform has none
\* the code reads st_ctime, which a rename sets anew: the model keeps the
\* year of a file across its moves.
GetFileMetadata(f, p) ==
    [extension |-> Lower(Suffix(Name(p))),
     size_gb   |-> f[p].size,
     year      |-> f[p].year]

\* _rule_matches with the minimum compared by <= in place of <
RuleMatchesBoundsOff(metadata, rules) ==
    LET extensions == Get(rules, "extensions", <<>>)
        min_gb == Get(rules, "min_gb", None)
        max_gb == Get(rules, "max_gb", None)
        in_list == \E i \in 1..Len(extensions) : extensions[i] = metadata.extension
    IN  /\ ~(extensions # <<>> /\ ~in_list)
        /\ ~(min_gb # None /\ metadata.size_gb <= min_gb[1])
        /\ ~(max_gb # None /\ metadata.size_gb > max_gb[1])

RuleMatches(metadata, rules) ==
    LET extensions == Get(rules, "extensions", <<>>)
        min_gb == Get(rules, "min_gb", None)
        max_gb == Get(rules, "max_gb", None)
        in_list == \E i \in 1..Len(extensions) : extensions[i] = metadata.extension
    IN  /\ ~(extensions # <<>> /\ ~in_list)
        /\ ~(min_gb # None /\ metadata.size_gb < min_gb[1])
        /\ ~(max_gb # None /\ metadata.size_gb > max_gb[1])

\* the for loop of match_category, from the i-th category on
RECURSIVE MatchFrom(_, _, _)
MatchFrom(metadata, routing, i) ==
    IF i > Len(routing) THEN OTHERS
    ELSE IF routing[i].name \in {OTHERS, FOLDERS}
         THEN MatchFrom(metadata, routing, i + 1)
    ELSE IF ~RuleMatches(metadata, routing[i].rule)
         THEN MatchFrom(metadata, routing, i + 1)
    ELSE routing[i].name

MatchCategory(metadata, routing) == MatchFrom(metadata, routing, 1)

-----------------------------------------------------------------------------
(* engine.sort_file, engine.sort_folder *)

UNKNOWN == <<"U", "N", "K", "N", "O", "W", "N">>

\* the working directory of the process, against which the operating system
\* resolves a relative path
Cwd == <<<<"w">>>>

\* Path / name
Join(path, name) == [abs |-> path.abs, parts |-> path.parts \o <<name>>]

\* the absolute path the operating system acts on
Resolve(path) == IF path.abs THEN path.parts ELSE Cwd \o path.parts

\* sort_file's destination with the extension subfolder above the year's
SortFileDestDirTypeFirst(metadata, rule, base_dir) ==
    LET ext == LStripDot(metadata.extension)
        ext_folder == IF ext # <<>> THEN Upper(ext) ELSE UNKNOWN
        typed == IF Get(rule, "file_type", FALSE)
                 THEN Join(rule.path, ext_folder) ELSE rule.path
        dated == IF Get(rule, "year", FALSE)
                 THEN Join(typed, Str(metadata.year)) ELSE typed
    IN  IF base_dir # None /\ ~dated.abs
        THEN [abs |-> TRUE, parts |-> base_dir[1] \o dated.parts]
        ELSE dated

\* the destination directory sort_file builds for the selected rule
\* (base_dir: None, or Some of an absolute directory)
SortFileDestDir(metadata, rule, base_dir) ==
    LET dated == IF Get(rule, "year", FALSE)
                 THEN Join(rule.path, Str(metadata.year)) ELSE rule.path
        ext == LStripDot(metadata.extension)
        ext_folder == IF ext # <<>> THEN Upper(ext) ELSE UNKNOWN
        typed == IF Get(rule, "file_type", FALSE)
                 THEN Join(dated, ext_folder) ELSE dated
    IN  IF base_dir # None /\ ~typed.abs
        THEN [abs |-> TRUE, parts |-> base_dir[1] \o typed.parts]
        ELSE typed

\* what a call that raised returns in the model
Raised(f, error) ==
    [ok |-> FALSE, fs |-> f, category |-> <<>>, dest |-> <<>>, dest_dir |-> <<>>,
     error |-> error]

\* sort_file(filepath, config, base_dir): [ok, fs, category, dest, error],
\* with dest_dir the directory of dest as the code writes it
SortFile(f, filepath, config, base_dir) ==
    IF ~IsFile(f, filepath) THEN Raised(f, "ValueError")
    ELSE
    LET metadata == GetFileMetadata(f, filepath)
        routing == config.routing
        category == MatchCategory(metadata, routing)
    IN  IF ~HasCategory(routing, category) THEN Raised(f, "KeyError")
        ELSE IF "path" \notin DOMAIN RuleOf(routing, category)
             THEN Raised(f, "KeyError")
        ELSE
        LET dest_dir == SortFileDestDir(metadata, RuleOf(routing, category), base_dir)
            \* the argument of safe_move is a value, computed before the call
            final == CHOOSE r \in {SafeMove(f, filepath, d) : d \in {Resolve(dest_dir)}} : TRUE
        IN  [ok |-> final.ok, fs |-> final.fs, category |-> category,
             dest |-> final.dest, dest_dir |-> dest_dir,
             error |-> IF final.ok THEN "" ELSE "OSError"]

\* sort_folder(folderpath, config, base_dir): [ok, fs, category, dest, error]
SortFolder(f, folderpath, config, base_dir) ==
    IF ~IsDir(f, folderpath) THEN Raised(f, "ValueError")
    ELSE IF ~HasCategory(config.routing, FOLDERS) THEN Raised(f, "KeyError")
    ELSE IF "path" \notin DOMAIN RuleOf(config.routing, FOLDERS)
         THEN Raised(f, "KeyError")
    ELSE
    LET path == RuleOf(config.routing, FOLDERS).path
        dest_dir == IF base_dir # None /\ ~path.abs
                    THEN [abs |-> TRUE, parts |-> base_dir[1] \o path.parts]
                    ELSE path
        final == SafeMove(f, folderpath, Resolve(dest_dir))
    IN  [ok |-> final.ok, fs |-> final.fs, category |-> FOLDERS,
         dest |-> final.dest, dest_dir |-> dest_dir,
         error |-> IF final.ok THEN "" ELSE "OSError"]

-----------------------------------------------------------------------------
(* Sequential calls of safe_move (SpecMove).                               *)

NoLog == [op |-> "none", src |-> <<>>, dest_dir |-> <<>>, before |-> <<>>,
          ok |-> FALSE, dest |-> <<>>]

File(i) == [kind |-> "file", id |-> i, size |-> 0, year |-> 0]

Dir(i) == [kind |-> "dir", id |-> i, size |-> 0, year |-> 0]

\* "a.t", and the names safe_move derives from it
A_T == <<"a", ".", "t">>
A1_T == <<"a", "_", "1", ".", "t">>
A2_T == <<"a", "_", "2", ".", "t">>

\* the destination directory /D and the directories /s and /q of the sources
DirD == <<<<"D">>>>
DirS == <<<<"s">>>>
DirQ == <<<<"q">>>>

\* the sources: the file /s/a.t and the directory /q/a.t holding the file x
MoveSources ==
    (DirS :> Dir(1)) @@ (DirS \o <<A_T>> :> File(2)) @@
    (DirQ :> Dir(3)) @@ (DirQ \o <<A_T>> :> Dir(4)) @@
    (DirQ \o <<A_T, <<"x">>>> :> File(5))

\* the entries /D can hold at the start, under the names a.t, a_1.t, a_2.t
MoveOld ==
    (DirD \o <<A_T>> :> File(7)) @@ (DirD \o <<A1_T>> :> File(8)) @@
    (DirD \o <<A2_T>> :> File(9))

\* every initial content of /D over these names
MoveInitFs ==
    { MoveSources @@ (DirD :> Dir(6)) @@ [p \in present |-> MoveOld[p]]
      : present \in SUBSET DOMAIN MoveOld }

\* the sources of the calls: the file /s/a.t, the directory /q/a.t, the
\* entry /D/a.t of the destination itself, and /q, which holds a destination
MoveSrcs == { DirS \o <<A_T>>, DirQ \o <<A_T>>, DirD \o <<A_T>>, DirQ }

\* the destinations of the calls: /D, the absent /E, a directory inside the
\* source /q/a.t, and the file /s/a.t
MoveDestDirs ==
    { DirD, <<<<"E">>>>, DirQ \o <<A_T, <<"in">>>>, DirS \o <<A_T>> }

InitMove ==
    /\ fs \in MoveInitFs
    /\ cfg = <<>>
    /\ pc = "move"
    /\ todo = <<>>
    /\ moved = 0
    /\ run = <<>>
    /\ log = NoLog

\* one call safe_move(src, dest_dir), run to its return or its exception
SafeMoveCall ==
    /\ pc = "move"
    /\ moved < MaxCalls
    /\ \E src \in MoveSrcs \cap DOMAIN fs, dest_dir \in MoveDestDirs :
          LET r == SafeMove(fs, src, dest_dir)
          IN  /\ fs' = r.fs
              /\ moved' = IF r.ok THEN moved + 1 ELSE moved
              /\ log' = [op |-> "safe_move", src |-> src, dest_dir |-> dest_dir,
                         before |-> fs, ok |-> r.ok, dest |-> r.dest]
    /\ UNCHANGED <<cfg, pc, todo, run>>

NextMove == SafeMoveCall

SpecMove == InitMove /\ [][NextMove]_vars

-----------------------------------------------------------------------------
(* Classification of one file (SpecClassify): get_file_metadata, then       *)
(* match_category, over bounded sets of routings and files.                 *)

MaxSize == 2

IMG == <<"I", "m", "g">>
BIG == <<"B", "i", "g">>

DOT_J == <<".", "j">>
DOT_UPPER_J == <<".", "J">>
DOT_P == <<".", "p">>

DirT == <<<<"T">>>>

Rel(parts) == [abs |-> FALSE, parts |-> parts]
Abs(parts) == [abs |-> TRUE, parts |-> parts]

\* a key of a rule, present with one of the values or absent
Optional(key, values) == {<<>>} \cup {key :> v : v \in values}

\* the rules of the first non-reserved category
ClassifyRulesImg ==
    { [path |-> Rel(<<IMG>>)] @@ e @@ mn @@ mx @@ y @@ t :
        e  \in Optional("extensions",
                        {<<>>, <<DOT_J>>, <<DOT_UPPER_J>>, <<DOT_P, DOT_J>>}),
        mn \in Optional("min_gb", {Some(1)}),
        mx \in Optional("max_gb", {Some(1)}),
        y  \in Optional("year", {TRUE}),
        t  \in Optional("file_type", {TRUE}) }

\* the rules of the second one
ClassifyRulesBig ==
    { [path |-> Rel(<<BIG>>)] @@ e @@ mx :
        e  \in Optional("extensions", {<<DOT_J>>}),
        mx \in Optional("max_gb", {Some(1)}) }

\* the reserved entries around them: none, an "Others" entry first, or a
\* "Folders" entry first and an "Others" entry last
ClassifyRoutings ==
    { pre \o two \o post :
        two \in UNION { { <<[name |-> IMG, rule |-> a], [name |-> BIG, rule |-> b]>>,
                          <<[name |-> BIG, rule |-> b], [name |-> IMG, rule |-> a]>> }
                        : a \in ClassifyRulesImg, b \in ClassifyRulesBig },
        pre \in { <<>>, <<[name |-> OTHERS, rule |-> [path |-> Rel(<<OTHERS>>)]]>>,
                  <<[name |-> FOLDERS, rule |-> [path |-> Rel(<<FOLDERS>>)]]>> },
        post \in { <<>>, <<[name |-> OTHERS, rule |-> [path |-> Rel(<<OTHERS>>)]]>> } }

\* the file names: no extension, lower case, upper case, another extension
ClassifyNames ==
    { <<"a">>, <<"a", ".", "j">>, <<"a", ".", "J">>, <<"a", ".", "p">> }

ClassifyYears == {2023, 2024}

InitClassify ==
    /\ \E nm \in ClassifyNames, sz \in 0..MaxSize, yr \in ClassifyYears :
          fs = (DirT :> Dir(1)) @@
               (DirT \o <<nm>> :> [kind |-> "file", id |-> 2, size |-> sz, year |-> yr])
    /\ \E r \in ClassifyRoutings :
          /\ ~(HasCategory(r, OTHERS) /\ r[1].name = OTHERS /\ r[Len(r)].name = OTHERS)
          /\ cfg = [routing |-> r]
    /\ pc = "metadata"
    /\ todo = <<>>
    /\ moved = 0
    /\ run = <<>>
    /\ log = NoLog

\* metadata = get_file_metadata(filepath)
GetFileMetadataCall ==
    /\ pc = "metadata"
    /\ \E p \in DOMAIN fs :
          /\ IsFile(fs, p)
          /\ log' = [op |-> "get_file_metadata", src |-> p,
                     metadata |-> GetFileMetadata(fs, p)]
    /\ pc' = "match"
    /\ UNCHANGED <<fs, cfg, todo, moved, run>>

\* category = match_category(metadata, routing), with what _rule_matches
\* answers for each rule of the routing
MatchCategoryCall ==
    /\ pc = "match"
    /\ log' = [op |-> "match_category", src |-> log.src, metadata |-> log.metadata,
               matches |-> [i \in 1..Len(cfg.routing) |->
                               RuleMatches(log.metadata, cfg.routing[i].rule)],
               category |-> MatchCategory(log.metadata, cfg.routing)]
    /\ pc' = "done"
    /\ UNCHANGED <<fs, cfg, todo, moved, run>>

NextClassify == GetFileMetadataCall \/ MatchCategoryCall

SpecClassify == InitClassify /\ [][NextClassify]_vars

-----------------------------------------------------------------------------
(* One call of sort_file (SpecPlan): the destination directory, over the    *)
(* rules' paths and flags, the files' extensions and years and base_dir.    *)

A_NOEXT == <<"a">>
A_JPG == <<"a", ".", "j", "p", "g">>
A_UPPER_JPG == <<"a", ".", "J", "P", "G">>
DOT_JPG == <<".", "j", "p", "g">>

PlanNames == {A_NOEXT, A_JPG, A_UPPER_JPG}

PlanYears == {2023, 2024}

\* the directory /d of the absolute destinations
DirDest == <<<<"d">>>>

\* the "Img" rule takes .jpg; "Others" the rest; each path is relative or
\* absolute, each flag absent, false or true
PlanRoutings ==
    { << [name |-> IMG,
          rule |-> [extensions |-> <<DOT_JPG>>, path |-> ip] @@ iy @@ it],
         [name |-> OTHERS,
          rule |-> [path |-> Rel(<<OTHERS>>)] @@ oy @@ ot] >> :
        ip \in {Rel(<<IMG>>), Abs(DirDest \o <<IMG>>)},
        iy \in Optional("year", BOOLEAN),
        it \in Optional("file_type", BOOLEAN),
        oy \in Optional("year", {TRUE}),
        ot \in Optional("file_type", {TRUE}) }

InitPlan ==
    /\ \E nm \in PlanNames, yr \in PlanYears :
          fs = (DirT :> Dir(1)) @@
               (DirT \o <<nm>> :> [kind |-> "file", id |-> 2, size |-> 0, year |-> yr])
    /\ \E r \in PlanRoutings : cfg = [routing |-> r]
    /\ pc = "sort"
    /\ todo = <<>>
    /\ moved = 0
    /\ run = <<>>
    /\ log = NoLog

\* sort_file(filepath, config, base_dir) for the file of /T, without a
\* base_dir or with /T or /d as the base_dir
SortFileCall ==
    /\ pc = "sort"
    /\ \E p \in Children(fs, DirT), base_dir \in {None, Some(DirT), Some(DirDest)} :
          LET r == SortFile(fs, p, cfg, base_dir)
          IN  /\ fs' = r.fs
              /\ moved' = IF r.ok THEN moved + 1 ELSE moved
              /\ log' = [op |-> "sort_file", src |-> p, base_dir |-> base_dir,
                         before |-> fs, ok |-> r.ok, category |-> r.category,
                         dest |-> r.dest, error |-> r.error]
    /\ pc' = "done"
    /\ UNCHANGED <<cfg, todo, run>>

NextPlan == SortFileCall

SpecPlan == InitPlan /\ [][NextPlan]_vars

-----------------------------------------------------------------------------
(* manual.interactive_sort and manual._sort_single_file.  A pass is started *)
(* by one action (the prompts, the directories made up front, the snapshot  *)
(* of the entries), runs one action per item and ends with one action.  An  *)
(* exception that leaves interactive_sort or sync_sort ends the pass at     *)
(* pc = "aborted" with the rest of todo unprocessed.                        *)

\* _sort_single_file(filepath, config, custom_target, base_dir): never
\* raises; ok is its return value 1
SortSingleFile(f, filepath, config, custom_target, base_dir) ==
    IF custom_target # None
    THEN IF ~Exists(f, filepath) THEN Raised(f, "FileNotFoundError")
         ELSE
         LET metadata == GetFileMetadata(f, filepath)
             routing == config.routing
             category == MatchCategory(metadata, routing)
             rule == IF HasCategory(routing, category)
                     THEN RuleOf(routing, category) ELSE <<>>
             dest_dir == IF Get(rule, "year", FALSE)
                         THEN custom_target[1] \o <<category, Str(metadata.year)>>
                         ELSE custom_target[1] \o <<category>>
             final == SafeMove(f, filepath, dest_dir)
         IN  [ok |-> final.ok, fs |-> final.fs, category |-> category,
              dest |-> final.dest, dest_dir |-> [abs |-> TRUE, parts |-> dest_dir],
              error |-> IF final.ok THEN "" ELSE "OSError"]
    ELSE SortFile(f, filepath, config, Some(base_dir))

\* the directories a custom-target pass makes before it starts: the target
\* and one per category of the routing, in the routing's order
RECURSIVE MkdirCategories(_, _, _, _)
MkdirCategories(f, custom_target, routing, i) ==
    IF i > Len(routing) THEN [ok |-> TRUE, fs |-> f]
    ELSE LET made == MkdirP(f, custom_target \o <<routing[i].name>>)
         IN  IF ~made.ok THEN made
             ELSE MkdirCategories(made.fs, custom_target, routing, i + 1)

\* the item of the walk that is next: a file none of whose directory's
\* ancestors still has a file waiting (os.walk is top-down; the order of the
\* names within one directory is the operating system's)
WalkNext(files) ==
    {p \in files : \A q \in files :
        ~(Len(Parent(q)) < Len(Parent(p)) /\ IsPrefix(Parent(q), Parent(p)))}

\* the record of a pass in run.history
PassRecord(aborted) ==
    [mode |-> run.mode, flatten |-> run.flatten, custom_target |-> run.custom_target,
     revert_target |-> run.revert_target, moved |-> moved, aborted |-> aborted]

\* an exception leaves the pass
Abort ==
    /\ pc' = "aborted"
    /\ run' = [run EXCEPT !.history = Append(@, PassRecord(TRUE))]

\* choice 1 or 2 of interactive_sort, up to the snapshot of the entries
StartRouting(target, custom_target, flatten) ==
    /\ pc \in {"idle", "aborted"}
    /\ Len(run.history) < MaxPasses
    /\ LET made == IF custom_target = None THEN [ok |-> TRUE, fs |-> fs]
                   ELSE LET top == MkdirP(fs, custom_target[1])
                        IN  IF ~top.ok THEN top
                            ELSE MkdirCategories(top.fs, custom_target[1], cfg.routing, 1)
           started == [run EXCEPT !.mode = IF custom_target = None THEN "default"
                                           ELSE "custom",
                                  !.target = target, !.flatten = flatten,
                                  !.custom_target = custom_target,
                                  !.revert_target = None]
       IN  /\ fs' = made.fs
           /\ moved' = 0
           /\ IF made.ok
              THEN /\ pc' = "sort"
                   /\ run' = started
                   /\ todo' = [i \in 1..Cardinality(Children(made.fs, target)) |->
                                 [kind |-> "entry",
                                  path |-> Sorted(Children(made.fs, target))[i]]]
              ELSE /\ pc' = "aborted"
                   /\ run' = [started EXCEPT !.history =
                                Append(@, [mode |-> started.mode, flatten |-> flatten,
                                           custom_target |-> custom_target,
                                           revert_target |-> None, moved |-> 0,
                                           aborted |-> TRUE])]
                   /\ todo' = <<>>
    /\ log' = NoLog
    /\ UNCHANGED cfg

\* one entry of the snapshot that is a file (an entry of the snapshot is
\* still there at its turn: the pass moves an entry only at its turn)
SortEntryFile ==
    /\ pc = "sort" /\ todo # <<>>
    /\ todo[1].kind = "entry" /\ IsFile(fs, todo[1].path)
    /\ LET r == SortSingleFile(fs, todo[1].path, cfg, run.custom_target, run.target)
       IN  /\ fs' = r.fs
           /\ moved' = IF r.ok THEN moved + 1 ELSE moved
           /\ log' = [op |-> "sort_single_file", src |-> todo[1].path, before |-> fs,
                      ok |-> r.ok, category |-> r.category, dest |-> r.dest,
                      error |-> r.error]
    /\ todo' = Tail(todo)
    /\ UNCHANGED <<cfg, pc, run>>

\* one entry that is a directory, flatten requested: its files are collected
SortEntryFlatten ==
    /\ pc = "sort" /\ todo # <<>>
    /\ todo[1].kind = "entry" /\ IsDir(fs, todo[1].path) /\ run.flatten
    /\ todo' = <<[kind |-> "flatten", path |-> todo[1].path,
                  files |-> FilesBelow(fs, todo[1].path)]>> \o Tail(todo)
    /\ UNCHANGED <<fs, cfg, pc, moved, run, log>>

\* one collected file of a flattened directory
FlattenFile ==
    /\ pc = "sort" /\ todo # <<>>
    /\ todo[1].kind = "flatten"
    /\ \E p \in WalkNext(todo[1].files) :
          LET r == SortSingleFile(fs, p, cfg, run.custom_target, run.target)
          IN  /\ fs' = r.fs
              /\ moved' = IF r.ok THEN moved + 1 ELSE moved
              /\ log' = [op |-> "sort_single_file", src |-> p, before |-> fs,
                         ok |-> r.ok, category |-> r.category, dest |-> r.dest,
                         error |-> r.error]
              /\ todo' = <<[todo[1] EXCEPT !.files = @ \ {p}]>> \o Tail(todo)
    /\ UNCHANGED <<cfg, pc, run>>

\* the flattened directory is done: its empty directories are pruned, and
\* the directory itself when it is empty
FlattenPrune ==
    /\ pc = "sort" /\ todo # <<>>
    /\ todo[1].kind = "flatten" /\ todo[1].files = {}
    /\ LET entry == todo[1].path
           pruned == RemoveEmptyDirs(fs, entry)
       IN  fs' = IF Exists(pruned, entry) /\ Children(pruned, entry) = {}
                 THEN [q \in (DOMAIN pruned) \ {entry} |-> pruned[q]]
                 ELSE pruned
    /\ todo' = Tail(todo)
    /\ UNCHANGED <<cfg, pc, moved, run, log>>

\* one entry that is a directory, moved intact: nothing catches what
\* safe_move or sort_folder raises here
SortEntryFolder ==
    /\ pc = "sort" /\ todo # <<>>
    /\ todo[1].kind = "entry" /\ IsDir(fs, todo[1].path) /\ ~run.flatten
    /\ LET entry == todo[1].path
           r == IF run.custom_target # None
                THEN SafeMove(fs, entry, run.custom_target[1] \o <<FOLDERS>>)
                ELSE SortFolder(fs, entry, cfg, Some(run.target))
       IN  /\ fs' = r.fs
           /\ log' = [op |-> "sort_folder", src |-> entry, before |-> fs,
                      ok |-> r.ok, dest |-> r.dest]
           /\ IF r.ok
              THEN /\ moved' = moved + 1
                   /\ todo' = Tail(todo)
                   /\ UNCHANGED <<pc, run>>
              ELSE /\ Abort
                   /\ UNCHANGED <<moved, todo>>
    /\ UNCHANGED cfg

\* the routing pass is through its entries
FinishRouting ==
    /\ pc = "sort" /\ todo = <<>>
    /\ pc' = "idle"
    /\ run' = [run EXCEPT !.history = Append(@, PassRecord(FALSE))]
    /\ UNCHANGED <<fs, cfg, todo, moved, log>>

\* the walk of the revert skips directory root (and all below it)
RevertSkips(f, target, revert_target, root) ==
    \/ IsPrefix(revert_target, root)
    \/ /\ IsDir(f, target \o <<FOLDERS>>)
       /\ IsPrefix(target \o <<FOLDERS>>, root)

\* the files the walk of the revert comes to
RevertWalkFiles(f, target, revert_target) ==
    {p \in FilesBelow(f, target) : ~RevertSkips(f, target, revert_target, Parent(p))}

\* choice 3 of interactive_sort, up to the loop over target/"Folders"
StartRevert(target, revert_target) ==
    /\ pc \in {"idle", "aborted"}
    /\ Len(run.history) < MaxPasses
    /\ LET made == MkdirP(fs, revert_target)
           started == [run EXCEPT !.mode = "revert", !.target = target,
                                  !.flatten = FALSE, !.custom_target = None,
                                  !.revert_target = Some(revert_target)]
           folders_cat == target \o <<FOLDERS>>
       IN  /\ fs' = made.fs
           /\ moved' = 0
           /\ IF made.ok
              THEN /\ pc' = "revert"
                   /\ run' = started
                   /\ todo' = (IF IsDir(made.fs, folders_cat)
                                  /\ Children(made.fs, folders_cat) # {}
                               THEN <<[kind |-> "folders",
                                       items |-> Children(made.fs, folders_cat)]>>
                               ELSE <<>>)
                              \o <<[kind |-> "walk"]>>
              ELSE /\ pc' = "aborted"
                   /\ run' = [started EXCEPT !.history =
                                Append(@, [mode |-> "revert", flatten |-> FALSE,
                                           custom_target |-> None,
                                           revert_target |-> Some(revert_target),
                                           moved |-> 0, aborted |-> TRUE])]
                   /\ todo' = <<>>
    /\ log' = NoLog
    /\ UNCHANGED cfg

\* one item of target/"Folders", moved intact unless it is the destination
RevertFolderItem ==
    /\ pc = "revert" /\ todo # <<>>
    /\ todo[1].kind = "folders"
    /\ \E item \in todo[1].items :
          /\ IF item = run.revert_target[1]
             THEN UNCHANGED <<fs, moved, log>>
             ELSE LET r == SafeMove(fs, item, run.revert_target[1])
                  IN  /\ fs' = r.fs
                      /\ moved' = IF r.ok THEN moved + 1 ELSE moved
                      /\ log' = [op |-> "revert_intact", src |-> item, before |-> fs,
                                 ok |-> r.ok, dest |-> r.dest]
          /\ todo' = IF todo[1].items = {item} THEN Tail(todo)
                     ELSE <<[todo[1] EXCEPT !.items = @ \ {item}]>> \o Tail(todo)
    /\ UNCHANGED <<cfg, pc, run>>

\* os.walk(target) starts: the files of the directories it does not skip
RevertWalk ==
    /\ pc = "revert" /\ todo # <<>>
    /\ todo[1].kind = "walk"
    /\ todo' = <<[kind |-> "files",
                  files |-> RevertWalkFiles(fs, run.target, run.revert_target[1])]>>
    /\ UNCHANGED <<fs, cfg, pc, moved, run, log>>

\* one file of the walk
RevertFile ==
    /\ pc = "revert" /\ todo # <<>>
    /\ todo[1].kind = "files"
    /\ \E p \in WalkNext(todo[1].files) :
          LET r == SafeMove(fs, p, run.revert_target[1])
          IN  /\ fs' = r.fs
              /\ moved' = IF r.ok THEN moved + 1 ELSE moved
              /\ log' = [op |-> "revert_file", src |-> p, before |-> fs,
                         ok |-> r.ok, dest |-> r.dest]
              /\ todo' = <<[todo[1] EXCEPT !.files = @ \ {p}]>>
    /\ UNCHANGED <<cfg, pc, run>>

\* the walk is over: the empty directories below the target are pruned
FinishRevert ==
    /\ pc = "revert" /\ todo # <<>>
    /\ todo[1].kind = "files" /\ todo[1].files = {}
    /\ fs' = RemoveEmptyDirs(fs, run.target)
    /\ todo' = <<>>
    /\ pc' = "idle"
    /\ run' = [run EXCEPT !.history = Append(@, PassRecord(FALSE))]
    /\ UNCHANGED <<cfg, moved, log>>

-----------------------------------------------------------------------------
(* manual.sync_sort.  A collected file is the path as the code writes it:  *)
(* the category's configured path followed by the names below it.           *)

\* _collect_all_files(cat_path), as paths written from cat_path
CollectAllFiles(f, cat_path) ==
    { [abs |-> cat_path.abs,
       parts |-> cat_path.parts \o SubSeq(p, Len(Resolve(cat_path)) + 1, Len(p))] :
        p \in FilesBelow(f, Resolve(cat_path)) }

\* all_files: one walk per category of the routing that is a directory now
RECURSIVE SyncCollect(_, _, _)
SyncCollect(f, routing, i) ==
    IF i > Len(routing) THEN <<>>
    ELSE LET cat_path == routing[i].rule.path
             found == IF IsDir(f, Resolve(cat_path))
                      THEN CollectAllFiles(f, cat_path) ELSE {}
         IN  (IF found = {} THEN <<>> ELSE <<[kind |-> "files", files |-> found]>>)
             \o SyncCollect(f, routing, i + 1)

\* the closing loop of sync_sort: _remove_empty_dirs of every category path
RECURSIVE SyncPrune(_, _, _)
SyncPrune(f, routing, i) ==
    IF i > Len(routing) THEN f
    ELSE LET cat_path == Resolve(routing[i].rule.path)
         IN  SyncPrune(IF IsDir(f, cat_path) THEN RemoveEmptyDirs(f, cat_path) ELSE f,
                       routing, i + 1)

\* the files of a walk written as paths: the one that is next
SyncNext(files) ==
    {p \in files : Resolve(p) \in WalkNext({Resolve(q) : q \in files})}

\* sync_sort up to its loop over all_files: a rule without "path" raises
\* KeyError, no file found returns at once
StartSync ==
    /\ pc \in {"idle", "aborted"}
    /\ Len(run.history) < MaxPasses
    /\ LET started == [run EXCEPT !.mode = "sync", !.target = <<>>, !.flatten = FALSE,
                                  !.custom_target = None, !.revert_target = None]
           record(aborted) == [mode |-> "sync", flatten |-> FALSE, custom_target |-> None,
                               revert_target |-> None, moved |-> 0, aborted |-> aborted]
       IN  IF \E i \in 1..Len(cfg.routing) : "path" \notin DOMAIN cfg.routing[i].rule
           THEN /\ pc' = "aborted"
                /\ run' = [started EXCEPT !.history = Append(@, record(TRUE))]
                /\ todo' = <<>>
           ELSE /\ todo' = SyncCollect(fs, cfg.routing, 1)
                /\ IF todo' = <<>>
                   THEN /\ pc' = "idle"
                        /\ run' = [started EXCEPT !.history = Append(@, record(FALSE))]
                   ELSE /\ pc' = "sync"
                        /\ run' = started
    /\ moved' = 0
    /\ log' = NoLog
    /\ UNCHANGED <<fs, cfg>>

\* one file of all_files: sort_file, counted when it changed directory;
\* log.errors counts the files of this pass whose sort_file raised
SyncFile ==
    /\ pc = "sync" /\ todo # <<>>
    /\ \E p \in SyncNext(todo[1].files) :
          LET r == SortFile(fs, Resolve(p), cfg, None)
              rerouted == r.ok /\ r.dest_dir # [p EXCEPT !.parts = Parent(@)]
          IN  /\ fs' = r.fs
              /\ moved' = IF rerouted THEN moved + 1 ELSE moved
              /\ log' = [op |-> "sync_file", src |-> Resolve(p), before |-> fs,
                         ok |-> r.ok, category |-> r.category, dest |-> r.dest,
                         error |-> r.error,
                         errors |-> (IF log.op = "sync_file" THEN log.errors ELSE 0)
                                    + (IF r.ok THEN 0 ELSE 1)]
              /\ todo' = IF todo[1].files = {p} THEN Tail(todo)
                         ELSE <<[todo[1] EXCEPT !.files = @ \ {p}]>> \o Tail(todo)
    /\ UNCHANGED <<cfg, pc, run>>

\* all_files is through: the category paths are pruned
FinishSync ==
    /\ pc = "sync" /\ todo = <<>>
    /\ fs' = SyncPrune(fs, cfg.routing, 1)
    /\ pc' = "idle"
    /\ run' = [run EXCEPT !.history = Append(@, PassRecord(FALSE))]
    /\ UNCHANGED <<cfg, todo, moved, log>>

-----------------------------------------------------------------------------
(* Batch passes over one target directory (SpecBatch): at most MaxPasses    *)
(* passes, each a default routing, a custom-target routing or a revert.     *)

B_NOEXT == <<"b">>
SUB == <<"s", "u", "b">>
OUT == <<"o", "u", "t">>
SORTED == <<"s", "o", "r", "t", "e", "d">>

\* /T holds a.jpg, b and the directory sub with another a.jpg; /out, outside
\* the target, holds a third a.jpg
BatchInitFs ==
    (DirT :> Dir(1)) @@
    (DirT \o <<A_JPG>> :> [kind |-> "file", id |-> 2, size |-> 0, year |-> 2023]) @@
    (DirT \o <<B_NOEXT>> :> [kind |-> "file", id |-> 3, size |-> 0, year |-> 2023]) @@
    (DirT \o <<SUB>> :> Dir(4)) @@
    (DirT \o <<SUB, A_JPG>> :> [kind |-> "file", id |-> 5, size |-> 0, year |-> 2023]) @@
    (<<OUT>> :> Dir(6)) @@
    (<<OUT, A_JPG>> :> [kind |-> "file", id |-> 7, size |-> 0, year |-> 2023])

\* "Img" takes .jpg, with or without a year subfolder; "Others" has a path;
\* "Folders" is configured or not; every path is relative
BatchRoutings ==
    { << [name |-> IMG,
          rule |-> [extensions |-> <<DOT_JPG>>, path |-> Rel(<<IMG>>)] @@ y],
         [name |-> OTHERS, rule |-> [path |-> Rel(<<OTHERS>>)]] >> \o folders :
        y \in Optional("year", {TRUE}),
        folders \in { <<>>,
                      <<[name |-> FOLDERS, rule |-> [path |-> Rel(<<FOLDERS>>)]]>> } }

\* the custom targets: inside the target directory and outside it
BatchCustomTargets == { DirT \o <<SORTED>>, <<<<"c">>>> }

\* the revert destinations: the target itself, a directory inside it, the
\* directory /out outside it, and a category's directory
BatchRevertTargets == { DirT, DirT \o <<OUT>>, <<OUT>>, DirT \o <<IMG>> }

NoRun == [mode |-> "none", target |-> <<>>, flatten |-> FALSE,
          custom_target |-> None, revert_target |-> None, history |-> <<>>]

InitBatch ==
    /\ fs = BatchInitFs
    /\ \E r \in BatchRoutings : cfg = [routing |-> r]
    /\ pc = "idle"
    /\ todo = <<>>
    /\ moved = 0
    /\ run = NoRun
    /\ log = NoLog

NextBatch ==
    \/ \E flatten \in BOOLEAN : StartRouting(DirT, None, flatten)
    \/ \E c \in BatchCustomTargets, flatten \in BOOLEAN :
            StartRouting(DirT, Some(c), flatten)
    \/ \E r \in BatchRevertTargets : StartRevert(DirT, r)
    \/ SortEntryFile
    \/ SortEntryFlatten
    \/ FlattenFile
    \/ FlattenPrune
    \/ SortEntryFolder
    \/ FinishRouting
    \/ RevertFolderItem
    \/ RevertWalk
    \/ RevertFile
    \/ FinishRevert

SpecBatch == InitBatch /\ [][NextBatch]_vars

-----------------------------------------------------------------------------
(* Sync passes (SpecSync): at most MaxPasses runs of sync_sort, one after   *)
(* the other, over every placement of up to three files below the category  *)
(* paths.                                                                   *)

DOCS == <<"d", "o", "c", "s">>
DOT_T == <<".", "t">>
Y2023 == <<"2", "0", "2", "3">>

DocsPath == Abs(DirDest \o <<DOCS>>)

\* the path of "Others": beside the path of "Docs", or nested inside it
SyncOthersPaths == { Abs(DirDest \o <<<<"o">>>>), Abs(DirDest \o <<DOCS, <<"o">>>>) }

\* "Docs" takes .t into a subfolder per year; "Others" the rest; in either
\* order
SyncRoutings ==
    UNION { { << [name |-> DOCS, rule |-> [path |-> DocsPath,
                                           extensions |-> <<DOT_T>>, year |-> TRUE]],
                 [name |-> OTHERS, rule |-> [path |-> o]] >>,
              << [name |-> OTHERS, rule |-> [path |-> o]],
                 [name |-> DOCS, rule |-> [path |-> DocsPath,
                                           extensions |-> <<DOT_T>>, year |-> TRUE]] >> }
            : o \in SyncOthersPaths }

\* filesystem f with the file node at path p, the directories above it made;
\* <<>> when p is taken or a file is in the way
Place(f, p, node) ==
    IF f = <<>> \/ Exists(f, p) \/ ~MkdirP(f, Parent(p)).ok THEN <<>>
    ELSE MkdirP(f, Parent(p)).fs @@ (p :> node)

\* the directories a file can lie in: the two category paths and the
\* year's subfolder of "Docs"
SyncDirs(routing) ==
    { Resolve(routing[i].rule.path) : i \in 1..Len(routing) }
    \cup { Resolve(DocsPath) \o <<Y2023>> }

\* every placement of the file a.t, of a file named 2023 (or none) and of a
\* second a.t (or none); and no file at all, the year's subfolder left empty
SyncInitFs(routing) ==
    LET base == MkdirP(MkdirP(<<>>, Resolve(routing[1].rule.path)).fs,
                       Resolve(routing[2].rule.path)).fs
        file(i) == [kind |-> "file", id |-> i, size |-> 0, year |-> 2023]
        first == { Place(base, d \o <<A_T>>, file(1)) : d \in SyncDirs(routing) }
        second == first \cup
                  { Place(f, d \o <<Y2023>>, file(2)) : f \in first, d \in SyncDirs(routing) }
        third == second \cup
                 { Place(f, d \o <<A_T>>, file(3)) : f \in second, d \in SyncDirs(routing) }
    IN  (third \ {<<>>}) \cup { MkdirP(base, Resolve(DocsPath) \o <<Y2023>>).fs }

InitSync ==
    /\ \E r \in SyncRoutings :
          /\ cfg = [routing |-> r]
          /\ fs \in SyncInitFs(r)
    /\ pc = "idle"
    /\ todo = <<>>
    /\ moved = 0
    /\ run = NoRun
    /\ log = NoLog

NextSync == StartSync \/ SyncFile \/ FinishSync

SpecSync == InitSync /\ [][NextSync]_vars

-----------------------------------------------------------------------------
(* C1 *)

\* name nm is unused in the destination directory when the call starts
C1_Unused(nm) == ~Exists(log.before, log.dest_dir \o <<nm>>)

\* the name the claim gives the source: its own when unused, otherwise
\* <stem>_<n><suffix> for the smallest n >= 1 whose name is unused
C1_Name ==
    LET nm == Name(log.src)
        numbered(n) == Stem(nm) \o <<"_">> \o Str(n) \o Suffix(nm)
        most == Cardinality(DOMAIN log.before) + 1
    IN  IF C1_Unused(nm) THEN nm
        ELSE numbered(CHOOSE n \in 1..most :
                        /\ C1_Unused(numbered(n))
                        /\ \A m \in 1..(n - 1) : ~C1_Unused(numbered(m)))

\* C1: a call of safe_move leaves every entry that existed in (and below)
\* the destination directory in place and unchanged, the moved source
\* itself excepted; a call that returns has put the source, with all it
\* holds, at destinationDir/<name> when that name was unused and otherwise at
\* destinationDir/<stem>_<n><suffix> for the smallest unused n >= 1, for a
\* file and for a directory alike.
C1_SafeMoveNeverOverwrites ==
    log.op = "safe_move" =>
        /\ \A p \in DOMAIN log.before :
              (IsPrefix(log.dest_dir, p) /\ p # log.dest_dir
                    /\ ~IsPrefix(log.src, p))
              => (p \in DOMAIN fs /\ fs[p] = log.before[p])
        /\ log.ok =>
              /\ log.dest = log.dest_dir \o <<C1_Name>>
              /\ \A p \in DOMAIN log.before :
                    IsPrefix(log.src, p) =>
                        LET q == log.dest \o SubSeq(p, Len(log.src) + 1, Len(p))
                        IN  /\ q \in DOMAIN fs
                            /\ fs[q] = log.before[p]
                            /\ (p \in DOMAIN fs => IsPrefix(log.dest, p))

\* the second of two distinct files named a.t has landed at /D/a_1.t, and a
\* directory named a.t has landed, renamed, beside older entries
C1_Witness ==
    /\ log.op = "safe_move" /\ log.ok
    /\ log.dest_dir = DirD
    /\ log.before[log.src].kind = "dir"
    /\ log.dest = DirD \o <<A2_T>>
    /\ IsFile(fs, DirD \o <<A_T>>) /\ IsFile(fs, DirD \o <<A1_T>>)
    /\ fs[DirD \o <<A1_T>>].id = 2
    /\ fs[DirD \o <<A_T>>].id = 7

-----------------------------------------------------------------------------
(* C2 *)

\* the size conditions of a rule, as the claim states them
C2_SizeOk(metadata, rule) ==
    /\ ("min_gb" \in DOMAIN rule /\ rule.min_gb # None)
            => metadata.size_gb >= rule.min_gb[1]
    /\ ("max_gb" \in DOMAIN rule /\ rule.max_gb # None)
            => metadata.size_gb <= rule.max_gb[1]

\* the i-th category of the routing qualifies for the metadata: it is not
\* reserved, and its extension, minimum-size and maximum-size conditions hold
C2_Qualifies(metadata, routing, i) ==
    LET rule == routing[i].rule
    IN  /\ routing[i].name # OTHERS /\ routing[i].name # FOLDERS
        /\ \/ "extensions" \notin DOMAIN rule
           \/ rule.extensions = <<>>
           \/ \E k \in 1..Len(rule.extensions) :
                    rule.extensions[k] = metadata.extension
        /\ C2_SizeOk(metadata, rule)

\* C2: match_category returns the first category in declared order, other
\* than "Others" and "Folders", whose extension, minimum-size and
\* maximum-size conditions are all satisfied, and "Others" when there is
\* none; neither the file's year nor a rule's year or file_type flag has a
\* part in it.
C2_FirstQualifyingCategory ==
    log.op = "match_category" =>
        LET routing == cfg.routing
            qualifying == {i \in 1..Len(routing) :
                                C2_Qualifies(log.metadata, routing, i)}
        IN  IF qualifying = {} THEN log.category = OTHERS
            ELSE \E i \in qualifying :
                    /\ \A j \in qualifying : i <= j
                    /\ log.category = routing[i].name

\* the second non-reserved category was selected behind an "Others" entry
\* and a first category that carries a year flag and failed on its bounds
C2_Witness ==
    /\ log.op = "match_category"
    /\ log.category = BIG
    /\ cfg.routing[1].name = OTHERS
    /\ cfg.routing[2].name = IMG
    /\ "year" \in DOMAIN cfg.routing[2].rule
    /\ "min_gb" \in DOMAIN cfg.routing[2].rule
    /\ ~log.matches[2]
    /\ log.metadata.extension = DOT_J
    /\ log.metadata.year = 2024

-----------------------------------------------------------------------------
(* C3 *)

\* the extension of the file (dot included) equals some entry of the list,
\* ignoring letter case
C3_Member(name, extensions) ==
    \E k \in 1..Len(extensions) : Lower(extensions[k]) = Lower(Suffix(name))

\* C3: for every rule with a non-empty extension list, the rule matches
\* exactly when the file's extension is a member of the list ignoring the
\* letter case of both and the size bounds hold; a category whose list does
\* not hold the extension is never selected.
C3_ExtensionIgnoresCase ==
    log.op = "match_category" =>
        \A i \in 1..Len(cfg.routing) :
            LET rule == cfg.routing[i].rule
                extensions == Get(rule, "extensions", <<>>)
                member == C3_Member(Name(log.src), extensions)
            IN  extensions # <<>> =>
                    /\ log.matches[i] = (member /\ C2_SizeOk(log.metadata, rule))
                    /\ ~member => log.category # cfg.routing[i].name

-----------------------------------------------------------------------------
(* C10 *)

\* the flag of the rule is set
C10_Flag(rule, key) == key \in DOMAIN rule /\ rule[key] = TRUE

\* the subfolder of the file's type: its extension without the dot in upper
\* case, "UNKNOWN" without an extension
C10_TypeFolder(name) ==
    IF Suffix(name) = <<>> THEN UNKNOWN
    ELSE [i \in 1..(Len(Suffix(name)) - 1) |-> UpperChar(Suffix(name)[i + 1])]

\* C10: sort_file moves the file into the rule's configured path, followed
\* by the creation year's subfolder exactly when the rule's year flag is set,
\* followed inside it by the type's subfolder exactly when the rule's
\* file_type flag is set; a relative result is resolved against the base
\* directory when one is supplied (and against the working directory when
\* none is).
C10_DestinationDirectory ==
    (log.op = "sort_file" /\ log.ok) =>
        LET rule == RuleOf(cfg.routing, log.category)
            file == log.before[log.src]
            planned == rule.path.parts
                       \o (IF C10_Flag(rule, "year") THEN <<Str(file.year)>> ELSE <<>>)
                       \o (IF C10_Flag(rule, "file_type")
                           THEN <<C10_TypeFolder(Name(log.src))>> ELSE <<>>)
            base == IF rule.path.abs THEN Root
                    ELSE IF log.base_dir # None THEN log.base_dir[1]
                    ELSE Cwd
        IN  /\ Parent(log.dest) = base \o planned
            /\ IsFile(fs, log.dest)
            /\ fs[log.dest] = file

\* year 2023, extension .jpg, both flags, a relative path and a base
\* directory: the file is in <base>/Img/2023/JPG
C10_Witness ==
    /\ log.op = "sort_file" /\ log.ok
    /\ log.category = IMG
    /\ log.dest = DirT \o <<IMG, <<"2", "0", "2", "3">>, <<"J", "P", "G">>, A_JPG>>
    /\ IsFile(fs, log.dest)

-----------------------------------------------------------------------------
(* C6 *)

\* a routing pass that sorted into categories inside the target directory
\* has completed, and after it a revert pass has completed
C6_SortedThenReverted ==
    /\ pc = "idle"
    /\ Len(run.history) = 2
    /\ run.history[1].mode \in {"default", "custom"}
    /\ run.history[1].custom_target \in {None, Some(DirT \o <<SORTED>>)}
    /\ ~run.history[1].aborted
    /\ run.history[2].mode = "revert"
    /\ ~run.history[2].aborted

\* the file with identity i is an entry of directory d
C6_FileIn(i, d) ==
    \E p \in Children(fs, d) : fs[p].kind = "file" /\ fs[p].id = i

\* C6: after a sort of the target directory and a revert into one
\* destination directory, every file that was in the target directory (and,
\* when the sort flattened, every file of its subdirectory) is an entry of
\* the destination directory, and the destination holds no file but these
\* and the files it held before; for every choice of the destination.
C6_RoundTrip ==
    C6_SortedThenReverted =>
        LET dest == run.history[2].revert_target[1]
        IN  /\ C6_FileIn(2, dest)
            /\ C6_FileIn(3, dest)
            /\ run.history[1].flatten => C6_FileIn(5, dest)
            /\ \A p \in Children(fs, dest) :
                    fs[p].kind = "file" =>
                        \/ fs[p].id \in {2, 3, 5}
                        \/ (p \in DOMAIN BatchInitFs /\ BatchInitFs[p] = fs[p])

-----------------------------------------------------------------------------
(* C4 *)

\* C4: a pass never ends by an exception because the move or the
\* classification of one item failed: the failure of an item is caught and
\* the rest of the pass's items are processed.
C4_ItemFailureNeverAbortsPass ==
    ~(pc = "aborted" /\ log.op # "none" /\ ~log.ok)

-----------------------------------------------------------------------------
(* C5 *)

\* C5: when sync has run twice in succession, the second run reports zero
\* re-routed files, whatever the initial placement of the files under the
\* category paths.
C5_SecondSyncReroutesNothing ==
    (/\ pc = "idle"
     /\ Len(run.history) >= 2
     /\ run.history[1].mode = "sync" /\ ~run.history[1].aborted
     /\ run.history[2].mode = "sync" /\ ~run.history[2].aborted)
    => run.history[2].moved = 0

-----------------------------------------------------------------------------
(* Two concurrent calls of safe_move (SpecRace): a watch handler and a     *)
(* batch pass are two processes on one filesystem, each call is the        *)
(* sequence of the system calls of safe_move, and the calls of the two     *)
(* processes interleave in every order.  run[m] holds the locals of the    *)
(* call of mover m; log.before is the filesystem before the two calls.     *)

Movers == {1, 2}

DirR == <<<<"r">>>>

DirE == <<<<"E">>>>

\* a second file named a.t, in /r
RaceInitFs ==
    { f @@ (DirR :> Dir(10)) @@ (DirR \o <<A_T>> :> File(11)) : f \in MoveInitFs }

\* the sources: the files /s/a.t and /r/a.t and the directory /q/a.t
RaceSrcs == { DirS \o <<A_T>>, DirR \o <<A_T>>, DirQ \o <<A_T>> }

\* the destinations: /D and the absent /E
RaceDestDirs == { DirD, DirE }

NoCall == [pc |-> "idle", src |-> <<>>, dest_dir |-> <<>>, dest |-> <<>>,
           counter |-> 0]

InitRace ==
    /\ fs \in RaceInitFs
    /\ cfg = <<>>
    /\ pc = "race"
    /\ todo = <<>>
    /\ moved = 0
    /\ run = [m \in Movers |-> NoCall]
    /\ log = [NoLog EXCEPT !.before = fs]

\* mover m enters safe_move(src, dest_dir); the two movers hold different
\* sources
RaceCall(m) ==
    /\ pc = "race"
    /\ run[m].pc = "idle"
    /\ \E src \in RaceSrcs \cap DOMAIN fs, dest_dir \in RaceDestDirs :
          /\ \A o \in Movers \ {m} : run[o].src # src
          /\ run' = [run EXCEPT ![m] = [NoCall EXCEPT !.pc = "mkdir", !.src = src,
                                                      !.dest_dir = dest_dir]]
    /\ UNCHANGED <<fs, cfg, pc, todo, moved, log>>

\* dest_dir.mkdir(parents=True, exist_ok=True); dest = dest_dir / src.name
RaceMkdir(m) ==
    /\ pc = "race"
    /\ run[m].pc = "mkdir"
    /\ LET made == MkdirP(fs, run[m].dest_dir)
       IN  /\ fs' = made.fs
           /\ run' = [run EXCEPT ![m].pc = IF made.ok THEN "check" ELSE "failed",
                                 ![m].dest = run[m].dest_dir \o <<Name(run[m].src)>>]
    /\ UNCHANGED <<cfg, pc, todo, moved, log>>

\* if dest.exists(): ... counter = 1
RaceCheck(m) ==
    /\ pc = "race"
    /\ run[m].pc = "check"
    /\ run' = [run EXCEPT ![m].pc = IF Exists(fs, run[m].dest) THEN "loop" ELSE "move",
                          ![m].counter = IF Exists(fs, run[m].dest) THEN 1 ELSE 0]
    /\ UNCHANGED <<fs, cfg, pc, todo, moved, log>>

\* one iteration of the while loop: the next numbered name and its check
RaceLoop(m) ==
    /\ pc = "race"
    /\ run[m].pc = "loop"
    /\ LET new_name == NewName(Stem(Name(run[m].src)), run[m].counter,
                               Suffix(Name(run[m].src)))
           dest == run[m].dest_dir \o <<new_name>>
       IN  run' = [run EXCEPT ![m].dest = dest,
                              ![m].pc = IF Exists(fs, dest) THEN "loop" ELSE "move",
                              ![m].counter = IF Exists(fs, dest)
                                             THEN run[m].counter + 1
                                             ELSE run[m].counter]
    /\ UNCHANGED <<fs, cfg, pc, todo, moved, log>>

\* shutil.move(str(src), str(dest)), and the return or the exception
RaceMove(m) ==
    /\ pc = "race"
    /\ run[m].pc = "move"
    /\ LET r == ShutilMove(fs, run[m].src, run[m].dest)
       IN  /\ fs' = r.fs
           /\ run' = [run EXCEPT ![m].pc = IF r.ok THEN "done" ELSE "failed",
                                 ![m].dest = r.dest]
           /\ moved' = IF r.ok THEN moved + 1 ELSE moved
           /\ log' = [log EXCEPT !.op = "safe_move", !.src = run[m].src,
                                 !.dest_dir = run[m].dest_dir, !.ok = r.ok,
                                 !.dest = r.dest]
    /\ UNCHANGED <<cfg, pc, todo>>

NextRace ==
    \E m \in Movers :
        \/ RaceCall(m)
        \/ RaceMkdir(m)
        \/ RaceCheck(m)
        \/ RaceLoop(m)
        \/ RaceMove(m)

SpecRace == InitRace /\ [][NextRace]_vars

-----------------------------------------------------------------------------
(* C7 *)

\* both calls are over and they named the same destination directory
C7_BothOver ==
    /\ pc = "race"
    /\ \A m \in Movers : run[m].pc \in {"done", "failed"}
    /\ run[1].dest_dir = run[2].dest_dir

\* C7: after two concurrent calls of safe_move into the same destination
\* directory, in any interleaving of their steps, both calls have returned,
\* both sources are entries of the destination directory (two entries, so
\* under distinct names), and every entry the directory held before is
\* there unchanged.
C7_ConcurrentMovesLoseNothing ==
    C7_BothOver =>
        LET d == run[1].dest_dir
        IN  /\ \A m \in Movers : run[m].pc = "done"
            /\ \A m \in Movers :
                  \E p \in Children(fs, d) : fs[p] = log.before[run[m].src]
            /\ \A p \in DOMAIN log.before :
                  (IsPrefix(d, p) /\ p # d) => (p \in DOMAIN fs /\ fs[p] = log.before[p])

-----------------------------------------------------------------------------
(* The watch loop of auto.py (SpecWatch).  The observer thread takes the   *)
(* events of the watched directory /T one at a time, todo is its queue and *)
(* run.p the path the handler is processing.  The environment creates      *)
(* files and directories in /T, moves files in from /in and removes files, *)
(* at any moment, the settle delay of the handler included.  A handler the *)
(* exception of which escaped is at "crashed" and takes no more events.    *)
(* The messages the handler prints are taken to be printable.              *)

MaxEvents == 3

DirIn == <<<<"i", "n">>>>

TILDE_P == <<"~", "p">>

\* the names of the files written into /T; /in holds ~p and b
WatchNames == { DOT_P, A_T }

\* "Docs" takes .t; "Others", when there is one, the rest
WatchRoutings ==
    { << [name |-> DOCS, rule |-> [path |-> DocsPath, extensions |-> <<DOT_T>>]],
         [name |-> OTHERS, rule |-> [path |-> Abs(DirDest \o <<<<"o">>>>)]] >>,
      << [name |-> DOCS, rule |-> [path |-> DocsPath, extensions |-> <<DOT_T>>]] >> }

\* the event classes and the attribute each callback reads
CreatedEvent(kind, p) == [kind |-> kind, src_path |-> p, dest_path |-> <<>>]

MovedEvent(src, dest) == [kind |-> "FileMovedEvent", src_path |-> src, dest_path |-> dest]

\* on_created / on_moved: the path handed to _process, None for the events
\* of the other classes
HandlerPath(event) ==
    IF event.kind = "FileCreatedEvent" THEN Some(event.src_path)
    ELSE IF event.kind = "FileMovedEvent" THEN Some(event.dest_path)
    ELSE None

\* _process without the test for the names that start with "~"
ProcessAcceptsTilde(f, p) ==
    /\ IsFile(f, p)
    /\ ~StartsWith(Name(p), ".")

\* the two tests _process makes before it waits
ProcessAccepts(f, p) ==
    /\ IsFile(f, p)
    /\ ~(StartsWith(Name(p), ".") \/ StartsWith(Name(p), "~"))

\* an except clause for OSError alone
CaughtOSErrorOnly(error) == error = "OSError"

\* except Exception: the classes of the exceptions sort_file raises are
\* subclasses of Exception
Caught(error) == error \in {"ValueError", "KeyError", "OSError"}

\* the outcome of the last event the handler finished
WatchLog(op, p, r) == [op |-> op, src |-> p, ok |-> r.ok, error |-> r.error]

InitWatch ==
    /\ fs = (DirT :> Dir(1)) @@ (DirIn :> Dir(2)) @@
            (DirIn \o <<TILDE_P>> :> File(3)) @@ (DirIn \o <<B_NOEXT>> :> File(4))
    /\ \E r \in WatchRoutings : cfg = [routing |-> r]
    /\ pc = "idle"
    /\ todo = <<>>
    /\ moved = 0
    /\ run = [p |-> <<>>, events |-> 0]
    /\ log = NoLog

NoResult == [ok |-> FALSE, error |-> ""]

\* a program writes a new file into /T
EnvCreate ==
    /\ pc \in {"idle", "settling", "sort"}
    /\ run.events < MaxEvents
    /\ \E nm \in WatchNames :
          LET p == DirT \o <<nm>>
          IN  /\ ~Exists(fs, p)
              /\ fs' = fs @@ (p :> File(20 + run.events))
              /\ todo' = Append(todo, CreatedEvent("FileCreatedEvent", p))
    /\ run' = [run EXCEPT !.events = run.events + 1]
    /\ UNCHANGED <<cfg, pc, moved, log>>

\* a file of /in is renamed into /T
EnvMoveIn ==
    /\ pc \in {"idle", "settling", "sort"}
    /\ run.events < MaxEvents
    /\ \E src \in Children(fs, DirIn) :
          LET p == DirT \o <<Name(src)>>
          IN  /\ ~Exists(fs, p)
              /\ fs' = Rename(fs, src, p)
              /\ todo' = Append(todo, MovedEvent(src, p))
    /\ run' = [run EXCEPT !.events = run.events + 1]
    /\ UNCHANGED <<cfg, pc, moved, log>>

\* a directory named a.t is made in /T
EnvMkdir ==
    /\ pc \in {"idle", "settling", "sort"}
    /\ run.events < MaxEvents
    /\ LET p == DirT \o <<A_T>>
       IN  /\ ~Exists(fs, p)
           /\ fs' = fs @@ (p :> Dir(20 + run.events))
           /\ todo' = Append(todo, CreatedEvent("DirCreatedEvent", p))
    /\ run' = [run EXCEPT !.events = run.events + 1]
    /\ UNCHANGED <<cfg, pc, moved, log>>

\* a file of /T is deleted (the handler has no callback for the event)
EnvRemove ==
    /\ pc \in {"idle", "settling", "sort"}
    /\ \E p \in Children(fs, DirT) :
          /\ IsFile(fs, p)
          /\ fs' = [q \in (DOMAIN fs) \ {p} |-> fs[q]]
    /\ UNCHANGED <<cfg, pc, todo, moved, run, log>>

\* the observer thread hands the next event to on_created / on_moved, and
\* _process runs up to its sleep
WatchDispatch ==
    /\ pc = "idle"
    /\ todo # <<>>
    /\ LET path == HandlerPath(Head(todo))
       IN  IF path = None
           THEN /\ pc' = "idle"
                /\ run' = [run EXCEPT !.p = <<>>]
                /\ log' = WatchLog("ignored", Head(todo).src_path, NoResult)
           ELSE IF ~ProcessAccepts(fs, path[1])
           THEN /\ pc' = "idle"
                /\ run' = [run EXCEPT !.p = <<>>]
                /\ log' = WatchLog("dropped", path[1], NoResult)
           ELSE /\ pc' = "settling"
                /\ run' = [run EXCEPT !.p = path[1]]
                /\ log' = log
    /\ todo' = Tail(todo)
    /\ UNCHANGED <<fs, cfg, moved>>

\* time.sleep(1) returns; if not p.exists(): return
WatchSettled ==
    /\ pc = "settling"
    /\ IF Exists(fs, run.p)
       THEN /\ pc' = "sort"
            /\ UNCHANGED <<run, log>>
       ELSE /\ pc' = "idle"
            /\ run' = [run EXCEPT !.p = <<>>]
            /\ log' = WatchLog("vanished", run.p, NoResult)
    /\ UNCHANGED <<fs, cfg, todo, moved>>

\* try: sort_file(p, self.config) ... except Exception.  A file that the
\* move leaves in the watched directory /T was renamed within it, and the
\* observer queues the FileMovedEvent of that rename.  The moves of the
\* handler are counted up to MaxEvents + 1.
WatchSort ==
    /\ pc = "sort"
    /\ moved <= MaxEvents
    /\ \E r \in {SortFile(fs, run.p, cfg, None)} :
           /\ fs' = r.fs
           /\ moved' = IF r.ok THEN moved + 1 ELSE moved
           /\ log' = WatchLog("sort_file", run.p, r)
           /\ pc' = IF r.ok \/ Caught(r.error) THEN "idle" ELSE "crashed"
           /\ todo' = IF r.ok /\ Parent(r.dest) = DirT
                      THEN Append(todo, MovedEvent(run.p, r.dest))
                      ELSE todo
    /\ run' = [run EXCEPT !.p = <<>>]
    /\ UNCHANGED cfg

NextWatch ==
    \/ EnvCreate
    \/ EnvMoveIn
    \/ EnvMkdir
    \/ EnvRemove
    \/ WatchDispatch
    \/ WatchSettled
    \/ WatchSort

SpecWatch == InitWatch /\ [][NextWatch]_vars

\* the observer thread is scheduled: a step of the handler that stays
\* possible is taken
SpecWatchFair ==
    /\ InitWatch
    /\ [][NextWatch]_vars
    /\ WF_vars(WatchDispatch)
    /\ WF_vars(WatchSettled)
    /\ WF_vars(WatchSort)

-----------------------------------------------------------------------------
(* C8 *)

C8_Hidden(p) == StartsWith(Name(p), ".") \/ StartsWith(Name(p), "~")

\* C8: the watch loop never waits for, classifies or moves a path whose
\* name starts with "." or "~", whatever creations and moves into /T
\* happen: the path the handler holds past its first tests, and the path
\* of every call of sort_file it makes, has no such name, and no step of the
\* handler changes an entry with such a name.
C8_NeverHeld ==
    /\ pc \in {"settling", "sort"} => ~C8_Hidden(run.p)
    /\ log.op = "sort_file" => ~C8_Hidden(log.src)

\* the step of the handler that moves a file (the only steps that leave
\* "sort" are the handler's) leaves every entry with such a name as it is
C8_StaysInPlace ==
    (pc = "sort" /\ pc' # "sort") =>
        \A p \in DOMAIN fs : C8_Hidden(p) => (p \in DOMAIN fs' /\ fs'[p] = fs[p])

C8_HiddenNeverProcessed == []C8_NeverHeld /\ [][C8_StaysInPlace]_vars

\* the events of .p and of ~p were dropped and both files are still in /T
C8_Witness ==
    /\ pc = "idle"
    /\ todo = <<>>
    /\ log.op = "dropped"
    /\ C8_Hidden(log.src)
    /\ IsFile(fs, DirT \o <<DOT_P>>)
    /\ IsFile(fs, DirT \o <<TILDE_P>>)

-----------------------------------------------------------------------------
(* C9 *)

\* an exception never escapes the handler
C9_NoEscape == pc # "crashed"

\* the handler gets to its call of sort_file only from its wait
C9_AfterSettle == (pc' = "sort" /\ pc # "sort") => pc = "settling"

\* a file is moved only by the step that follows the wait, and only when the
\* path is a regular file at that moment
C9_MovedOnlyIfFile ==
    moved' # moved =>
        /\ pc = "sort"
        /\ IsFile(fs, run.p)
        /\ moved' = moved + 1

\* a path that vanished or is not a regular file is not moved: the step of
\* the handler changes nothing in the filesystem and ends at Idle
C9_DroppedIfGone ==
    /\ (pc = "settling" /\ pc' # pc /\ ~Exists(fs, run.p)) => (fs' = fs /\ pc' = "idle")
    /\ (pc = "sort" /\ pc' # pc /\ ~IsFile(fs, run.p)) => (fs' = fs /\ pc' = "idle")

\* C9: the handler moves a file only after its settle delay and only if the
\* path is then a regular file; a path that vanished or is not a regular
\* file is not moved; no exception escapes the handler; and the handler
\* always comes back to Idle and the queue of events is always emptied.
C9_HandlerAlwaysReturns ==
    /\ []C9_NoEscape
    /\ [][C9_AfterSettle /\ C9_MovedOnlyIfFile /\ C9_DroppedIfGone]_vars
    /\ (pc # "idle") ~> (pc = "idle")
    /\ (todo # <<>>) ~> (todo = <<>>)

\* without an "Others" category the sort_file of b raised KeyError and b is
\* still in /T; the handler went on and moved a.t, the later file
C9_Witness ==
    /\ pc = "idle"
    /\ todo = <<>>
    /\ Len(cfg.routing) = 1
    /\ IsFile(fs, DirT \o <<B_NOEXT>>)
    /\ log.op = "sort_file"
    /\ log.ok
    /\ log.src = DirT \o <<A_T>>
    /\ moved = 1
    /\ run.events = 2

-----------------------------------------------------------------------------
(* Passes under a routing with a category that has no destination          *)
(* (SpecNoPath): "Img" with or without a path, "Others" absent, without a  *)
(* path or with one; default routing of /T and sync, one after the other.  *)

DirImg == DirDest \o <<IMG>>

NoPathRoutings ==
    { << [name |-> IMG, rule |-> [extensions |-> <<DOT_JPG>>] @@ ip] >> \o others :
        ip \in Optional("path", {Abs(DirImg)}),
        others \in { <<>>,
                     <<[name |-> OTHERS, rule |-> <<>>]>>,
                     <<[name |-> OTHERS, rule |-> [path |-> Abs(DirDest \o <<<<"o">>>>)]]>> } }

\* /T holds a.jpg and b; /d/Img, the destination of "Img", holds a.jpg and b
NoPathInitFs ==
    (DirT :> Dir(1)) @@ (DirT \o <<A_JPG>> :> File(2)) @@ (DirT \o <<B_NOEXT>> :> File(3)) @@
    (DirDest :> Dir(4)) @@ (DirImg :> Dir(5)) @@
    (DirImg \o <<A_JPG>> :> File(6)) @@ (DirImg \o <<B_NOEXT>> :> File(7))

InitNoPath ==
    /\ fs = NoPathInitFs
    /\ \E r \in NoPathRoutings : cfg = [routing |-> r]
    /\ pc = "idle"
    /\ todo = <<>>
    /\ moved = 0
    /\ run = NoRun
    /\ log = NoLog

NextNoPath ==
    \/ StartRouting(DirT, None, FALSE)
    \/ SortEntryFile
    \/ FinishRouting
    \/ StartSync
    \/ SyncFile
    \/ FinishSync

SpecNoPath == InitNoPath /\ [][NextNoPath]_vars

-----------------------------------------------------------------------------
(* C11 *)

\* the item just processed was classified into a category without a path
C11_MissingPath ==
    /\ log' # log
    /\ log'.op \in {"sort_single_file", "sync_file"}
    /\ log'.error = "KeyError"

\* C11: in default routing and in sync, an item classified into a category
\* that has no configured path ends as a reported error of that item: the
\* filesystem is as before (the file at its path, no directory made), and
\* the pass goes on; no pass ends by an exception because a category,
\* "Others" included, has no path.
C11_MissingPathIsSkipped ==
    /\ [](pc # "aborted")
    /\ [][C11_MissingPath => (fs' = fs /\ pc' = pc /\ todo' # todo)]_vars

-----------------------------------------------------------------------------
(* Revert passes over a sorted target (SpecRevert): /T holds the category  *)
(* directory Img and the directory Folders with a directory moved intact;  *)
(* the revert destination is the target, its Folders directory, the        *)
(* directory inside Folders, the category directory, or /out outside.      *)

DirFolders == DirT \o <<FOLDERS>>

RevertInitFs ==
    (DirT :> Dir(1)) @@
    (DirFolders :> Dir(2)) @@ (DirFolders \o <<SUB>> :> Dir(3)) @@
    (DirFolders \o <<SUB, A_JPG>> :> File(4)) @@
    (DirT \o <<IMG>> :> Dir(5)) @@ (DirT \o <<IMG, A_JPG>> :> File(6)) @@
    (<<OUT>> :> Dir(7))

RevertTargets ==
    { DirT, DirFolders, DirFolders \o <<SUB>>, DirT \o <<IMG>>, <<OUT>> }

InitRevert ==
    /\ fs = RevertInitFs
    /\ cfg = [routing |-> <<>>]
    /\ pc = "idle"
    /\ todo = <<>>
    /\ moved = 0
    /\ run = NoRun
    /\ log = NoLog

NextRevert ==
    \/ \E r \in RevertTargets : StartRevert(DirT, r)
    \/ RevertFolderItem
    \/ RevertWalk
    \/ RevertFile
    \/ FinishRevert

SpecRevert == InitRevert /\ [][NextRevert]_vars

-----------------------------------------------------------------------------
(* C12 *)

\* a step of the two loops of the revert (the prune that ends the pass is
\* the step that leaves "revert")
C12_RevertStep == pc = "revert" /\ pc' = "revert"

\* the walk holds no file of the destination or below it
C12_WalkStaysOut ==
    (pc = "revert" /\ todo # <<>> /\ todo[1].kind = "files") =>
        \A p \in todo[1].files : ~IsPrefix(run.revert_target[1], p)

\* C12: during a revert, wherever the destination lies, no step of the
\* revert moves or renames an entry that is the destination or lies in or
\* under it (so the destination is never moved, into itself or elsewhere),
\* and the walk never comes to a file in or under the destination.
C12_DestinationUntouched ==
    /\ []C12_WalkStaysOut
    /\ [][C12_RevertStep =>
            \A p \in DOMAIN fs :
                IsPrefix(run.revert_target[1], p) => (p \in DOMAIN fs' /\ fs'[p] = fs[p])]_vars

-----------------------------------------------------------------------------
(* C13 *)

\* a sync pass has just ended and none of its files raised
C13_SyncedWithoutError ==
    /\ pc = "idle"
    /\ run.mode = "sync"
    /\ run.history # <<>>
    /\ ~run.history[Len(run.history)].aborted
    /\ log.op = "sync_file" => log.errors = 0

\* the category paths of the configuration
C13_CategoryPaths == { Resolve(cfg.routing[i].rule.path) : i \in 1..Len(cfg.routing) }

\* the directory that classification and path planning assign to file p
C13_Planned(p) ==
    LET metadata == GetFileMetadata(fs, p)
    IN  Resolve(SortFileDestDir(metadata,
                                RuleOf(cfg.routing, MatchCategory(metadata, cfg.routing)),
                                None))

\* C13: after a sync pass without a failed file, every file below a
\* category path lies in the directory that classification and path
\* planning assign to it under the configuration, and no directory below a
\* category path is empty.
C13_SyncHeals ==
    C13_SyncedWithoutError =>
        \A c \in C13_CategoryPaths :
            /\ \A p \in FilesBelow(fs, c) : Parent(p) = C13_Planned(p)
            /\ \A d \in DOMAIN fs :
                  (IsDir(fs, d) /\ IsPrefix(c, d) /\ d # c) => Children(fs, d) # {}

-----------------------------------------------------------------------------
(* Custom-target passes (SpecCustom): the target /T of SpecBatch, the       *)
(* with the file b or without it, the routings of SpecBatch and the        *)
(* routing that holds "Img" alone; the root is /T/sorted, inside the       *)
(* target, or /c.                                                          *)

CustomRoutings ==
    BatchRoutings \cup
    { << [name |-> IMG,
          rule |-> [extensions |-> <<DOT_JPG>>, path |-> Rel(<<IMG>>)] @@ y] >> :
        y \in Optional("year", {TRUE}) }

\* the target with the file b, and without it
CustomInitFs ==
    { BatchInitFs,
      [p \in (DOMAIN BatchInitFs) \ {DirT \o <<B_NOEXT>>} |-> BatchInitFs[p]] }

InitCustom ==
    /\ fs \in CustomInitFs
    /\ \E r \in CustomRoutings : cfg = [routing |-> r]
    /\ pc = "idle"
    /\ todo = <<>>
    /\ moved = 0
    /\ run = NoRun
    /\ log = NoLog

NextCustom ==
    \/ \E c \in BatchCustomTargets, flatten \in BOOLEAN :
            StartRouting(DirT, Some(c), flatten)
    \/ SortEntryFile
    \/ SortEntryFlatten
    \/ FlattenFile
    \/ FlattenPrune
    \/ SortEntryFolder
    \/ FinishRouting

SpecCustom == InitCustom /\ [][NextCustom]_vars

-----------------------------------------------------------------------------
(* C14 *)

\* the directory under root R the claim gives a file of the category: the
\* category's name, and the year below it exactly when the rule has the flag
C14_FileDir(p, category) ==
    LET rule == IF HasCategory(cfg.routing, category)
                THEN RuleOf(cfg.routing, category) ELSE <<>>
        year == IF "year" \in DOMAIN rule /\ rule.year
                THEN <<Str(log.before[p].year)>> ELSE <<>>
    IN  run.custom_target[1] \o <<category>> \o year

\* the file just routed lies where the claim says, the directory just moved
\* lies under R/Folders
C14_Placed ==
    /\ (log.op = "sort_single_file" /\ log.ok) =>
            /\ Parent(log.dest) = C14_FileDir(log.src, log.category)
            /\ log.dest \in DOMAIN fs
    /\ (log.op = "sort_folder" /\ log.ok) =>
            Parent(log.dest) = run.custom_target[1] \o <<FOLDERS>>

\* after the pass the root holds a directory per configured category, and
\* "Others"
C14_Subfolders ==
    (pc = "idle" /\ ~run.history[Len(run.history)].aborted) =>
        /\ \A i \in 1..Len(cfg.routing) :
              IsDir(fs, run.custom_target[1] \o <<cfg.routing[i].name>>)
        /\ IsDir(fs, run.custom_target[1] \o <<OTHERS>>)

\* C14: in a custom-target pass with root R every file routed lies in
\* R/<category>, in R/<category>/<year> exactly when the category has the
\* year flag; every directory moved intact lies in R/Folders; and when the
\* pass has ended R holds one directory per configured category and the
\* directory "Others".
C14_CustomTargetLayout ==
    run.mode = "custom" => (C14_Placed /\ C14_Subfolders)

-----------------------------------------------------------------------------
(* C15 *)

\* C15: when sync processes a file that already lies in the directory
\* chosen for it, the file keeps its path and its name: the call of
\* sort_file that returns with a destination in the file's own directory
\* returns the file's own path, and the filesystem is as before the call.
C15_InPlaceFileKeepsName ==
    (log.op = "sync_file" /\ log.ok /\ Parent(log.dest) = Parent(log.src)) =>
        /\ log.dest = log.src
        /\ log.src \in DOMAIN fs

-----------------------------------------------------------------------------
(* Sequences of batch operations (SpecSequence): at most MaxPasses passes  *)
(* over the target /T of SpecBatch, each a default routing, a custom-      *)
(* target routing, a revert or a sync, one after the other.  The routings  *)
(* are those of SpecBatch and the same with absolute paths below /T, the   *)
(* paths a sync run walks.                                                 *)

SeqRoutings ==
    BatchRoutings \cup
    { << [name |-> IMG,
          rule |-> [extensions |-> <<DOT_JPG>>, path |-> Abs(DirT \o <<IMG>>)] @@ y],
         [name |-> OTHERS, rule |-> [path |-> Abs(DirT \o <<OTHERS>>)]],
         [name |-> FOLDERS, rule |-> [path |-> Abs(DirT \o <<FOLDERS>>)]] >> :
        y \in Optional("year", {TRUE}) }

InitSequence ==
    /\ fs = BatchInitFs
    /\ \E r \in SeqRoutings : cfg = [routing |-> r]
    /\ pc = "idle"
    /\ todo = <<>>
    /\ moved = 0
    /\ run = NoRun
    /\ log = NoLog

NextSequence ==
    \/ NextBatch
    \/ StartSync
    \/ SyncFile
    \/ FinishSync

SpecSequence == InitSequence /\ [][NextSequence]_vars

-----------------------------------------------------------------------------
(* C16 *)

\* the paths at which filesystem f holds the file with identity i
C16_PathsOf(f, i) == {p \in DOMAIN f : f[p].kind = "file" /\ f[p].id = i}

\* every file of the start is there exactly once, with its size and year
C16_EveryFileOnce ==
    \A q \in DOMAIN BatchInitFs :
        BatchInitFs[q].kind = "file" =>
            /\ Cardinality(C16_PathsOf(fs, BatchInitFs[q].id)) = 1
            /\ \A p \in C16_PathsOf(fs, BatchInitFs[q].id) : fs[p] = BatchInitFs[q]

\* a step that only takes entries away takes directories away that hold no
\* file (and so, removed bottom-up, no entry when their turn comes)
C16_PruneOnlyEmpty ==
    (DOMAIN fs' \subseteq DOMAIN fs /\ DOMAIN fs' # DOMAIN fs) =>
        /\ \A p \in (DOMAIN fs) \ (DOMAIN fs') :
              fs[p].kind = "dir" /\ FilesBelow(fs, p) = {}
        /\ \A p \in DOMAIN fs' : fs'[p] = fs[p]

\* C16: after any sequence of batch operations run one at a time (default
\* routing, flattening or not, custom-target routing, revert, sync), and at
\* every moment in it, every file that existed at the start exists exactly
\* once; and a prune removes only directories that hold no file, never a
\* file.
C16_NoDataLoss == []C16_EveryFileOnce /\ [][C16_PruneOnlyEmpty]_vars

\* two passes are over, a.jpg of /T/sub has been renamed on a collision and
\* the directory sub, emptied by a flatten, has been pruned
C16_Witness ==
    /\ pc = "idle"
    /\ Len(run.history) = 2
    /\ \E p \in C16_PathsOf(fs, 5) : Name(p) = <<"a", "_", "1", ".", "j", "p", "g">>
    /\ \A p \in DOMAIN fs : fs[p].id # 4

-----------------------------------------------------------------------------
(* The watch loop with a destination that is watched (SpecWatchLoop): the  *)
(* routings of SpecWatch, and the routing whose "Others" has the watched   *)
(* directory /T as its path.                                               *)

WatchLoopRoutings ==
    WatchRoutings \cup
    { << [name |-> DOCS, rule |-> [path |-> DocsPath, extensions |-> <<DOT_T>>]],
         [name |-> OTHERS, rule |-> [path |-> Abs(DirT)]] >> }

InitWatchLoop ==
    /\ fs = (DirT :> Dir(1)) @@ (DirIn :> Dir(2)) @@
            (DirIn \o <<TILDE_P>> :> File(3)) @@ (DirIn \o <<B_NOEXT>> :> File(4))
    /\ \E r \in WatchLoopRoutings : cfg = [routing |-> r]
    /\ pc = "idle"
    /\ todo = <<>>
    /\ moved = 0
    /\ run = [p |-> <<>>, events |-> 0]
    /\ log = NoLog

SpecWatchLoop == InitWatchLoop /\ [][NextWatch]_vars

-----------------------------------------------------------------------------
(* C17 *)

\* C17: the watch loop does not act on its own moves: whatever the
\* configuration, a destination that is the watched directory included,
\* each file that arrived from outside is moved at most once, so the
\* handler has never moved more files than events came from outside.
C17_NoMoveWithoutExternalEvent == moved <= run.events

-----------------------------------------------------------------------------
(* C18: default routing run twice on the same target (SpecBatch)            *)

\* two default-routing passes have been made, and the first one ran through
C18_SecondRunDone ==
    /\ Len(run.history) = 2
    /\ run.history[1].mode = "default" /\ ~run.history[1].aborted
    /\ run.history[2].mode = "default"

\* C18: default routing is idempotent over its own output: with the category
\* destinations relative to the target directory, a second default-routing
\* pass over the same target, with or without flatten, moves and renames
\* nothing and does not fail; the category and "Folders" directories that the
\* first pass created are left alone.
C18_SecondRunMovesNothing ==
    C18_SecondRunDone =>
        /\ ~run.history[2].aborted
        /\ run.history[2].moved = 0

=============================================================================
